---------------------------- MODULE Spec2Model ----------------------------
(***************************************************************************)
(* ExifView (src/vw/Camera/Exif.cc): the camera-setting accessors over a   *)
(* read-only EXIF tag store, with their fallback chains.                   *)
(*                                                                         *)
(* A C++ double is modelled as a fixed-point integer counting Unit-ths     *)
(* (1/1000): 25.4 is 25400, 0.01 is 10.  TLC integers are 32 bits wide, so *)
(* the products and quotients below are split so that no intermediate      *)
(* value overflows.  Every operation rounds towards minus infinity, as a   *)
(* double operation rounds to its own grid: results of pow, log, sqrt and  *)
(* division are in general inexact, in the model as in the program.        *)
(* All errors of the program are one C++ type, ExifErr; the three kinds    *)
(* TagNotFound, InvalidValue and InsufficientData are its three messages.  *)
(***************************************************************************)
EXTENDS Integers, Sequences, FiniteSets, TLC

VARIABLES store, lastQuery, outcome, lookups, first, budget

vars == <<store, lastQuery, outcome, lookups, first, budget>>

-----------------------------------------------------------------------------
(* Fixed-point arithmetic standing for double arithmetic.                  *)

Unit == 10^3

\* 2^14: the working precision inside pow and log.
Q == 2^14

Abs(x) == IF x < 0 THEN -x ELSE x

Max(a, b) == IF a >= b THEN a ELSE b

RECURSIVE TwoTo(_)
TwoTo(n) == IF n <= 0 THEN 1 ELSE 2 * TwoTo(n - 1)

\* a * b on doubles: floor(a*b/Unit), any signs.
FMul(a, b) == (a \div Unit) * b + ((a % Unit) * b) \div Unit

\* a / b on doubles, b # 0: floor(a*Unit/b).  (Division by 0.0 gives an
\* infinity or a NaN in the program; the input sets keep divisors nonzero.)
FDiv(a, b) ==
    LET n == IF b < 0 THEN -a ELSE a
        d == Abs(b)
    IN  (n \div d) * Unit + ((n % d) * Unit) \div d

\* Integer square root, floor(sqrt(n)), n >= 0.
RECURSIVE Isqrt(_)
Isqrt(n) ==
    IF n < 2 THEN n
    ELSE LET s == 2 * Isqrt(n \div 4)
         IN  IF (s + 1) * (s + 1) <= n THEN s + 1 ELSE s

\* sqrt(v) on doubles, v >= 0.
FSqrt(v) == Isqrt(v * Unit)

\* The power of two by which hypot scales its arguments to avoid overflow.
RECURSIVE HypotScale(_, _)
HypotScale(m, k) == IF m \div k < 2^15 THEN k ELSE HypotScale(m, 2 * k)

\* hypot(w, h) = sqrt(w*w + h*h), computed without intermediate overflow.
Hypot(w, h) ==
    LET aw == Abs(w)
        ah == Abs(h)
        k  == HypotScale(Max(aw, ah), 1)
    IN  Isqrt((aw \div k) * (aw \div k) + (ah \div k) * (ah \div k)) * k

\* 2^(f/Unit) for a fraction 0 <= f < Unit, in Q-ths: the binary digits of
\* f/Unit select the factors 2^(1/2), 2^(1/4), ... (root is the current one).
RECURSIVE Pow2Frac(_, _, _, _)
Pow2Frac(f, root, acc, bits) ==
    IF bits = 0 \/ f = 0 THEN acc
    ELSE LET r == Isqrt(root * Q)
             g == 2 * f
         IN  IF g >= Unit
             THEN Pow2Frac(g - Unit, r, (acc * r) \div Q, bits - 1)
             ELSE Pow2Frac(g, r, acc, bits - 1)

\* pow(2.0, x).
Pow2(x) ==
    LET k == x \div Unit
        p == Pow2Frac(x % Unit, 2 * Q, Q, 12)
        a == p * Unit
    IN  IF k >= 0
        THEN (a \div Q) * TwoTo(k) + ((a % Q) * TwoTo(k)) \div Q
        ELSE a \div (Q * TwoTo(-k))

\* The exponent k with 2^k <= v/Unit < 2^(k+1), v > 0.
RECURSIVE Log2Int(_, _)
Log2Int(v, k) ==
    IF v >= 2 * Unit THEN Log2Int(v \div 2, k + 1)
    ELSE IF v < Unit THEN Log2Int(2 * v, k - 1)
    ELSE k

\* The mantissa v / 2^k in [1, 2), in Q-ths.
Mantissa(v, k) ==
    IF k <= 14 THEN (v * TwoTo(14 - k)) \div Unit
    ELSE (v \div TwoTo(k - 14)) \div Unit

\* The first `bits` binary digits of log2(m/Q), m/Q in [1, 2), as an
\* integer: square the mantissa, emit 1 and halve when it reaches 2.
RECURSIVE Log2Frac(_, _, _)
Log2Frac(m, acc, bits) ==
    IF bits = 0 THEN acc
    ELSE LET sq == (m * m) \div Q
         IN  IF sq >= 2 * Q
             THEN Log2Frac(sq \div 2, 2 * acc + 1, bits - 1)
             ELSE Log2Frac(sq, 2 * acc, bits - 1)

\* log(v)/log(2.), v > 0.  (log of 0 or of a negative number gives an
\* infinity or a NaN in the program; the input sets keep v positive.)
Log2(v) ==
    LET k == Log2Int(v, 0)
        m == Mantissa(v, k)
    IN  k * Unit + (Log2Frac(m, 0, 12) * Unit) \div TwoTo(12)


-----------------------------------------------------------------------------
(* The tag store and the bounded inputs.                                   *)

\* How many of the candidate values of each tag the stores draw from.
NVals == 2

\* How many of the candidate FocalPlaneResolutionUnit codes.
NUnits == 3

\* How many queries one resolver answers in SpecSeq.
MaxQueries == 2

ExposureTags ==
    {"FNumber", "ApertureValue", "ExposureTime", "ShutterSpeedValue",
     "ISOSpeedRatings", "ExposureIndex", "BrightnessValue"}

FocalTags ==
    {"FocalLengthIn35mmFilm", "FocalLength", "PixelXDimension",
     "PixelYDimension", "FocalPlaneXResolution", "FocalPlaneYResolution",
     "FocalPlaneResolutionUnit"}

Tags == ExposureTags \cup FocalTags

\* Candidate values, doubles in Unit-ths; APEX values are whole numbers.
\* FNumber, ExposureTime and the ISO tags stay positive (see FDiv, Log2).
Candidates(tag) ==
    CASE tag = "FNumber"               -> <<4000, 2800, 1000>>
      [] tag = "ApertureValue"         -> <<4000, 3000, 0>>
      [] tag = "ExposureTime"          -> <<10, 250, 1000>>
      [] tag = "ShutterSpeedValue"     -> <<8000, 2000, -1000>>
      [] tag = "ISOSpeedRatings"       -> <<100000, 400000, 125000>>
      [] tag = "ExposureIndex"         -> <<200000, 125000, 100000>>
      [] tag = "BrightnessValue"       -> <<5000, -1500, 0>>
      [] tag = "FocalLengthIn35mmFilm" -> <<0, 35000, -1000>>
      [] tag = "FocalLength"           -> <<50000, 8500, 0>>
      [] tag = "PixelXDimension"       -> <<100000, 0, 50000>>
      [] tag = "PixelYDimension"       -> <<100000, 0, 200000>>
      [] tag = "FocalPlaneXResolution" -> <<100000, 0, -1000>>
      [] tag = "FocalPlaneYResolution" -> <<100000, 0, -1000>>
      [] tag = "FocalPlaneResolutionUnit" -> <<2, 3, 5, 1>>

Take(seq, n) == {seq[i] : i \in 1..(IF n < Len(seq) THEN n ELSE Len(seq))}

Values(tag) ==
    IF tag = "FocalPlaneResolutionUnit" THEN Take(Candidates(tag), NUnits)
    ELSE Take(Candidates(tag), NVals)

\* The stores over a group of tags: any subset present, each present tag
\* with one of its values.
RECURSIVE StoresOver(_)
StoresOver(group) ==
    IF group = {} THEN {<<>>}
    ELSE LET t    == CHOOSE x \in group : TRUE
             rest == StoresOver(group \ {t})
         IN  rest \cup
             {[x \in DOMAIN s \cup {t} |-> IF x = t THEN v ELSE s[x]] :
                s \in rest, v \in Values(t)}

\* The stores vary the tags of one group at a time: no accessor reads tags
\* of both groups.
Stores == StoresOver(ExposureTags) \cup StoresOver(FocalTags)

\* The stores of SpecSeq: presence patterns, each tag at its first value.
SeqStores ==
    {s \in Stores :
       \A t \in DOMAIN s :
          s[t] = Candidates(t)[1] \/ t = "FocalPlaneResolutionUnit"}

-----------------------------------------------------------------------------
(* Results: a returned value, or a thrown ExifErr with its message kind.   *)
(* looks is the sequence of tags handed to m_data.get_tag_value.           *)

Ok(v, looks) == [kind |-> "ok", val |-> v, tag |-> "", looks |-> looks]

Throw(kind, what, looks) ==
    [kind |-> kind, val |-> 0, tag |-> what, looks |-> looks]

After(pre, r) == [r EXCEPT !.looks = pre \o @]

\* ExifData::get_tag_value: true and the value when the tag is in the
\* store, false and the out-parameter untouched otherwise.
get_tag_value(s, tag) == tag \in DOMAIN s

query_by_tag(s, tag) ==
    IF get_tag_value(s, tag) THEN Ok(s[tag], <<tag>>)
    ELSE Throw("TagNotFound", tag, <<tag>>)

\* get_f_number with the two tags tried in the other order.
get_f_number_alternate_first(s) ==
    LET a == query_by_tag(s, "ApertureValue")
    IN  IF a.kind = "ok"
        THEN Ok(Pow2(FMul(a.val, Unit \div 2)), a.looks)
        ELSE After(a.looks, query_by_tag(s, "FNumber"))

\* get_exposure_time with pow(2.0, value) for pow(2.0, -value).
get_exposure_time_sign(s) ==
    LET p == query_by_tag(s, "ExposureTime")
    IN  IF p.kind = "ok" THEN p
        ELSE LET a == After(p.looks, query_by_tag(s, "ShutterSpeedValue"))
             IN  IF a.kind = "ok" THEN Ok(Pow2(a.val), a.looks) ELSE a

get_f_number(s) ==
    LET p == query_by_tag(s, "FNumber")
    IN  IF p.kind = "ok" THEN p
        ELSE LET a == After(p.looks, query_by_tag(s, "ApertureValue"))
             IN  IF a.kind = "ok"
                 THEN Ok(Pow2(FMul(a.val, Unit \div 2)), a.looks)
                 ELSE a

get_exposure_time(s) ==
    LET p == query_by_tag(s, "ExposureTime")
    IN  IF p.kind = "ok" THEN p
        ELSE LET a == After(p.looks, query_by_tag(s, "ShutterSpeedValue"))
             IN  IF a.kind = "ok" THEN Ok(Pow2(-a.val), a.looks) ELSE a

get_iso(s) ==
    LET p == query_by_tag(s, "ISOSpeedRatings")
    IN  IF p.kind = "ok" THEN p
        ELSE After(p.looks, query_by_tag(s, "ExposureIndex"))

\* get_aperture_value with log2(N) for 2*log2(N).
get_aperture_value_no_factor(s) ==
    LET p == query_by_tag(s, "ApertureValue")
    IN  IF p.kind = "ok" THEN p
        ELSE LET a == After(p.looks, query_by_tag(s, "FNumber"))
             IN  IF a.kind = "ok" THEN Ok(Log2(a.val), a.looks) ELSE a

get_aperture_value(s) ==
    LET p == query_by_tag(s, "ApertureValue")
    IN  IF p.kind = "ok" THEN p
        ELSE LET a == After(p.looks, query_by_tag(s, "FNumber"))
             IN  IF a.kind = "ok" THEN Ok(2 * Log2(a.val), a.looks) ELSE a

\* get_time_value with log2(T) for log2(1/T).
get_time_value_no_inverse(s) ==
    LET p == query_by_tag(s, "ShutterSpeedValue")
    IN  IF p.kind = "ok" THEN p
        ELSE LET a == After(p.looks, query_by_tag(s, "ExposureTime"))
             IN  IF a.kind = "ok" THEN Ok(Log2(a.val), a.looks) ELSE a

get_time_value(s) ==
    LET p == query_by_tag(s, "ShutterSpeedValue")
    IN  IF p.kind = "ok" THEN p
        ELSE LET a == After(p.looks, query_by_tag(s, "ExposureTime"))
             IN  IF a.kind = "ok"
                 THEN Ok(Log2(FDiv(Unit, a.val)), a.looks)
                 ELSE a

\* The order in which C++ evaluates the two operands of + is unspecified.
Orders == {"time_first", "aperture_first"}

\* get_exposure_value as a difference.
get_exposure_value_minus(s, order) ==
    LET tv == get_time_value(s)
        av == After(tv.looks, get_aperture_value(s))
    IN  IF tv.kind # "ok" THEN tv
        ELSE IF av.kind # "ok" THEN av
        ELSE Ok(tv.val - av.val, av.looks)

get_exposure_value(s, order) ==
    LET x == IF order = "time_first" THEN get_time_value(s)
             ELSE get_aperture_value(s)
    IN  IF x.kind # "ok" THEN x
        ELSE LET y == After(x.looks,
                            IF order = "time_first" THEN get_aperture_value(s)
                            ELSE get_time_value(s))
             IN  IF y.kind # "ok" THEN y
                 ELSE IF order = "time_first" THEN Ok(x.val + y.val, y.looks)
                 ELSE Ok(y.val + x.val, y.looks)

\* N = 1/3.125
FilmSpeedN == FDiv(Unit, 3125)

get_film_speed_value(s) ==
    LET iso == get_iso(s)
    IN  IF iso.kind # "ok" THEN iso
        ELSE Ok(Log2(FMul(iso.val, FilmSpeedN)), iso.looks)

\* get_luminance_value without the inner catch: the error of the failing
\* sub-query escapes.
get_luminance_value_no_catch(s) ==
    LET bv == query_by_tag(s, "BrightnessValue")
    IN  IF bv.kind = "ok" THEN bv
        ELSE
          LET av == After(bv.looks, get_aperture_value(s))
              tv == After(av.looks, get_time_value(s))
              sv == After(tv.looks, get_film_speed_value(s))
          IN  IF av.kind # "ok" THEN av
              ELSE IF tv.kind # "ok" THEN tv
              ELSE IF sv.kind # "ok" THEN sv
              ELSE Ok(av.val + tv.val - sv.val, sv.looks)

get_luminance_value(s) ==
    LET bv == query_by_tag(s, "BrightnessValue")
    IN  IF bv.kind = "ok" THEN bv
        ELSE
          LET av == After(bv.looks, get_aperture_value(s))
              tv == After(av.looks, get_time_value(s))
              sv == After(tv.looks, get_film_speed_value(s))
              insufficient(r) == Throw("InsufficientData", "brightness value", r.looks)
          IN  IF av.kind # "ok" THEN insufficient(av)
              ELSE IF tv.kind # "ok" THEN insufficient(tv)
              ELSE IF sv.kind # "ok" THEN insufficient(sv)
              ELSE Ok(av.val + tv.val - sv.val, sv.looks)

\* K = 12.5
LuminanceK == 12500

\* get_average_luminance with A*K for A*A*K.
get_average_luminance_no_square(s) ==
    LET A == get_f_number(s)
        T == After(A.looks, get_exposure_time(s))
        S == After(T.looks, get_iso(s))
        insufficient(r) ==
            Throw("InsufficientData", "average scene luminance", r.looks)
    IN  IF A.kind # "ok" THEN insufficient(A)
        ELSE IF T.kind # "ok" THEN insufficient(T)
        ELSE IF S.kind # "ok" THEN insufficient(S)
        ELSE Ok(FDiv(FMul(A.val, LuminanceK), FMul(T.val, S.val)), S.looks)

get_average_luminance(s) ==
    LET A == get_f_number(s)
        T == After(A.looks, get_exposure_time(s))
        S == After(T.looks, get_iso(s))
        insufficient(r) ==
            Throw("InsufficientData", "average scene luminance", r.looks)
    IN  IF A.kind # "ok" THEN insufficient(A)
        ELSE IF T.kind # "ok" THEN insufficient(T)
        ELSE IF S.kind # "ok" THEN insufficient(S)
        ELSE Ok(FDiv(FMul(FMul(A.val, A.val), LuminanceK),
                     FMul(T.val, S.val)), S.looks)

\* The switch with inch as its default case.
focal_from_unit_default_inch(fl, px, py, xres, yres, unit, looks) ==
    LET mm == IF unit = 3 THEN 10 * Unit ELSE 25400
        diagonal == Hypot(FMul(FDiv(mm, xres), px), FMul(FDiv(mm, yres), py))
    IN  IF diagonal = 0
        THEN Throw("InvalidValue", "sensor diagonal", looks)
        ELSE Ok(FDiv(FMul(fl, FSqrt(FMul(36 * Unit, 36 * Unit)
                                     + FMul(24 * Unit, 24 * Unit))),
                     diagonal), looks)

\* Without the test of the diagonal: the division by 0.0 returns a number
\* (an infinity or a NaN; here 0).
focal_from_unit_no_diagonal_test(fl, px, py, xres, yres, unit, looks) ==
    IF unit # 2 /\ unit # 3
    THEN Throw("InvalidValue", "FocalPlaneResolutionUnit", looks)
    ELSE
      LET mm == IF unit = 2 THEN 25400 ELSE 10 * Unit
          diagonal ==
              Hypot(FMul(FDiv(mm, xres), px), FMul(FDiv(mm, yres), py))
      IN  IF diagonal = 0 THEN Ok(0, looks)
          ELSE Ok(FDiv(FMul(fl, FSqrt(FMul(36 * Unit, 36 * Unit)
                                       + FMul(24 * Unit, 24 * Unit))),
                       diagonal), looks)

\* The steps of get_focal_length_35mm_equiv after the mandatory lookups:
\* the two range checks happen in the order of the code, the first one
\* before FocalPlaneYResolution is looked up.
focal_from_unit(fl, px, py, xres, yres, unit, looks) ==
    IF unit # 2 /\ unit # 3
    THEN Throw("InvalidValue", "FocalPlaneResolutionUnit", looks)
    ELSE
      LET focal_plane_resolution_unit_in_mm ==
              IF unit = 2 THEN 25400 ELSE 10 * Unit
          x_pixel_size_in_mm == FDiv(focal_plane_resolution_unit_in_mm, xres)
          y_pixel_size_in_mm == FDiv(focal_plane_resolution_unit_in_mm, yres)
          sensor_width_in_mm == FMul(x_pixel_size_in_mm, px)
          sensor_height_in_mm == FMul(y_pixel_size_in_mm, py)
          sensor_diagonal_in_mm ==
              Hypot(sensor_width_in_mm, sensor_height_in_mm)
      IN  IF sensor_diagonal_in_mm = 0
          THEN Throw("InvalidValue", "sensor diagonal", looks)
          ELSE Ok(FDiv(FMul(fl, FSqrt(FMul(36 * Unit, 36 * Unit)
                                       + FMul(24 * Unit, 24 * Unit))),
                       sensor_diagonal_in_mm), looks)

\* The five mandatory lookups first, the range checks after them.
focal_computed_lookups_first(s, pre) ==
    LET fl == After(pre, query_by_tag(s, "FocalLength"))
        px == After(fl.looks, query_by_tag(s, "PixelXDimension"))
        py == After(px.looks, query_by_tag(s, "PixelYDimension"))
        xr == After(py.looks, query_by_tag(s, "FocalPlaneXResolution"))
        yr == After(xr.looks, query_by_tag(s, "FocalPlaneYResolution"))
        u  == After(yr.looks, query_by_tag(s, "FocalPlaneResolutionUnit"))
    IN  IF fl.kind # "ok" THEN fl
        ELSE IF px.kind # "ok" THEN px
        ELSE IF py.kind # "ok" THEN py
        ELSE IF xr.kind # "ok" THEN xr
        ELSE IF yr.kind # "ok" THEN yr
        ELSE IF xr.val <= 0
             THEN Throw("InvalidValue", "FocalPlaneXResolution", yr.looks)
        ELSE IF yr.val <= 0
             THEN Throw("InvalidValue", "FocalPlaneYResolution", yr.looks)
        ELSE focal_from_unit(fl.val, px.val, py.val, xr.val, yr.val,
                             IF u.kind = "ok" THEN u.val ELSE 2, u.looks)

focal_computed(s, pre) ==
    LET fl == After(pre, query_by_tag(s, "FocalLength"))
        px == After(fl.looks, query_by_tag(s, "PixelXDimension"))
        py == After(px.looks, query_by_tag(s, "PixelYDimension"))
        xr == After(py.looks, query_by_tag(s, "FocalPlaneXResolution"))
        yr == After(xr.looks, query_by_tag(s, "FocalPlaneYResolution"))
        u  == After(yr.looks, query_by_tag(s, "FocalPlaneResolutionUnit"))
    IN  IF fl.kind # "ok" THEN fl
        ELSE IF px.kind # "ok" THEN px
        ELSE IF py.kind # "ok" THEN py
        ELSE IF xr.kind # "ok" THEN xr
        ELSE IF xr.val <= 0
             THEN Throw("InvalidValue", "FocalPlaneXResolution", xr.looks)
        ELSE IF yr.kind # "ok" THEN yr
        ELSE IF yr.val <= 0
             THEN Throw("InvalidValue", "FocalPlaneYResolution", yr.looks)
        ELSE focal_from_unit(fl.val, px.val, py.val, xr.val, yr.val,
                             IF u.kind = "ok" THEN u.val ELSE 2, u.looks)

get_focal_length_35mm_equiv(s) ==
    LET p == query_by_tag(s, "FocalLengthIn35mmFilm")
    IN  IF p.kind = "ok" /\ p.val > 0 THEN p
        ELSE focal_computed(s, p.looks)

-----------------------------------------------------------------------------
(* The resolver: one read-only store, queried up to budget times.          *)

Queries ==
    {"get_f_number", "get_exposure_time", "get_iso",
     "get_focal_length_35mm_equiv", "get_aperture_value", "get_time_value",
     "get_exposure_value", "get_film_speed_value", "get_luminance_value",
     "get_average_luminance"}

NoOutcome == [kind |-> "none", val |-> 0, tag |-> ""]

Result(r) == [kind |-> r.kind, val |-> r.val, tag |-> r.tag]

\* A const accessor: it returns or throws, and leaves m_data alone.
\* first remembers what each accessor answered the first time.
Answer(q, r) ==
    /\ budget > 0
    /\ budget' = budget - 1
    /\ lastQuery' = q
    /\ outcome' = Result(r)
    /\ lookups' = r.looks
    /\ first' = IF first[q].kind = "none"
                THEN [first EXCEPT ![q] = Result(r)] ELSE first
    /\ UNCHANGED store

Do_get_f_number == Answer("get_f_number", get_f_number(store))

Do_get_exposure_time == Answer("get_exposure_time", get_exposure_time(store))

\* get_iso keeping the value it found under ExposureIndex as
\* ISOSpeedRatings for the next call.
Do_get_iso_caching ==
    LET r == get_iso(store)
    IN  /\ budget > 0
        /\ budget' = budget - 1
        /\ lastQuery' = "get_iso"
        /\ outcome' = Result(r)
        /\ lookups' = r.looks
        /\ first' = IF first["get_iso"].kind = "none"
                    THEN [first EXCEPT !["get_iso"] = Result(r)] ELSE first
        /\ store' = IF r.kind = "ok" /\ "ISOSpeedRatings" \notin DOMAIN store
                    THEN [t \in DOMAIN store \cup {"ISOSpeedRatings"} |->
                            IF t = "ISOSpeedRatings" THEN r.val ELSE store[t]]
                    ELSE store

Do_get_iso == Answer("get_iso", get_iso(store))

Do_get_focal_length_35mm_equiv ==
    Answer("get_focal_length_35mm_equiv", get_focal_length_35mm_equiv(store))

Do_get_aperture_value ==
    Answer("get_aperture_value", get_aperture_value(store))

Do_get_time_value == Answer("get_time_value", get_time_value(store))

Do_get_exposure_value ==
    \E order \in Orders :
        Answer("get_exposure_value", get_exposure_value(store, order))

Do_get_film_speed_value ==
    Answer("get_film_speed_value", get_film_speed_value(store))

Do_get_luminance_value ==
    Answer("get_luminance_value", get_luminance_value(store))

Do_get_average_luminance ==
    Answer("get_average_luminance", get_average_luminance(store))

Start(stores, n) ==
    /\ store \in stores
    /\ lastQuery = "none"
    /\ outcome = NoOutcome
    /\ lookups = <<>>
    /\ first = [q \in Queries |-> NoOutcome]
    /\ budget = n

\* One query on any store of the input sets.
Init == Start(Stores, 1)

\* Sequences of queries on one resolver.
InitSeq == Start(SeqStores, MaxQueries)

Next ==
    \/ Do_get_f_number
    \/ Do_get_exposure_time
    \/ Do_get_iso
    \/ Do_get_focal_length_35mm_equiv
    \/ Do_get_aperture_value
    \/ Do_get_time_value
    \/ Do_get_exposure_value
    \/ Do_get_film_speed_value
    \/ Do_get_luminance_value
    \/ Do_get_average_luminance

Spec == Init /\ [][Next]_vars

SpecSeq == InitSeq /\ [][Next]_vars

-----------------------------------------------------------------------------
(* Vocabulary of the properties.                                           *)

Has(t) == t \in DOMAIN store

Asked(q) == lastQuery = q

PrimaryQueries ==
    {"get_f_number", "get_exposure_time", "get_iso", "get_aperture_value",
     "get_time_value", "get_luminance_value", "get_focal_length_35mm_equiv"}

TwoLevelQueries ==
    {"get_f_number", "get_exposure_time", "get_iso", "get_aperture_value",
     "get_time_value"}

PrimaryTag(q) ==
    CASE q = "get_f_number"                -> "FNumber"
      [] q = "get_exposure_time"           -> "ExposureTime"
      [] q = "get_iso"                     -> "ISOSpeedRatings"
      [] q = "get_aperture_value"          -> "ApertureValue"
      [] q = "get_time_value"              -> "ShutterSpeedValue"
      [] q = "get_luminance_value"         -> "BrightnessValue"
      [] q = "get_focal_length_35mm_equiv" -> "FocalLengthIn35mmFilm"

AlternateTag(q) ==
    CASE q = "get_f_number"       -> "ApertureValue"
      [] q = "get_exposure_time"  -> "ShutterSpeedValue"
      [] q = "get_iso"            -> "ExposureIndex"
      [] q = "get_aperture_value" -> "FNumber"
      [] q = "get_time_value"     -> "ExposureTime"

\* The tolerance of a comparison of doubles, 0.004.
Tol == Unit \div 250

\* r is 2^(n/2) to within two steps of the grid: r <= 2^(n/2) <= r + 2,
\* stated on the squares, r*r <= 2^n * Unit^2 <= (r+2)*(r+2), and divided
\* through so that no side leaves 32 bits.
IsRootOfTwoTo(r, n) ==
    /\ 0 <= r /\ r < 46000
    /\ -30 <= n /\ n <= 30
    /\ IF n >= 0
       THEN /\ (r * r + Unit * Unit - 1) \div (Unit * Unit) <= TwoTo(n)
            /\ TwoTo(n) <= ((r + 2) * (r + 2)) \div (Unit * Unit)
       ELSE /\ r * r <= (Unit * Unit) \div TwoTo(-n)
            /\ (Unit * Unit + TwoTo(-n) - 1) \div TwoTo(-n) <= (r + 2) * (r + 2)

\* 2^k <= num/den < 2^(k+1), for num >= 0 and den > 0, divided through
\* likewise.
Brackets(k, num, den) ==
    /\ -30 <= k /\ k <= 29
    /\ IF k >= 0
       THEN TwoTo(k) <= num \div den /\ num \div den < TwoTo(k + 1)
       ELSE /\ (den + TwoTo(-k) - 1) \div TwoTo(-k) <= num
            /\ num < (2 * den + TwoTo(-k) - 1) \div TwoTo(-k)

\* L/Unit is log2(num/den): its integer part brackets num/den, L taken
\* to within Tol.
IsLog2(L, num, den) ==
    \/ Brackets(L \div Unit, num, den)
    \/ Brackets((L + Tol) \div Unit, num, den)

\* The conversion column of the table of two-level accessors: r is the
\* conversion of the alternate tag's value x.
Converts(q, x, r) ==
    CASE q = "get_f_number"       -> IsRootOfTwoTo(r, x \div Unit)
      [] q = "get_exposure_time"  -> IsRootOfTwoTo(r, -2 * (x \div Unit))
      [] q = "get_iso"            -> r = x
      [] q = "get_aperture_value" ->
            IsLog2(2 * r, FMul(FMul(x, x), FMul(x, x)), Unit)
      [] q = "get_time_value"     -> IsLog2(-2 * r, x * x, Unit * Unit)

-----------------------------------------------------------------------------
\* C1 (as stated): for each of the seven accessors with a primary tag, a
\* present primary tag is returned as stored and no other tag is looked up.
C1_PassThroughAlways ==
    \A q \in PrimaryQueries :
        (Asked(q) /\ Has(PrimaryTag(q))) =>
            /\ outcome.kind = "ok"
            /\ outcome.val = store[PrimaryTag(q)]
            /\ lookups = <<PrimaryTag(q)>>

\* C1 (amended): a present primary tag is returned as stored and no other
\* tag is looked up; for get_focal_length_35mm_equiv only when the stored
\* FocalLengthIn35mmFilm is > 0, and otherwise that accessor goes on to
\* look up FocalLength.
C1_PassThrough ==
    \A q \in PrimaryQueries :
        (Asked(q) /\ Has(PrimaryTag(q))) =>
            IF q = "get_focal_length_35mm_equiv" /\ store[PrimaryTag(q)] <= 0
            THEN /\ Len(lookups) >= 2
                 /\ lookups[1] = "FocalLengthIn35mmFilm"
                 /\ lookups[2] = "FocalLength"
            ELSE /\ outcome.kind = "ok"
                 /\ outcome.val = store[PrimaryTag(q)]
                 /\ lookups = <<PrimaryTag(q)>>

C1_Witness ==
    /\ Asked("get_f_number")
    /\ Has("FNumber") /\ store["FNumber"] = 2800
    /\ Has("ApertureValue") /\ store["ApertureValue"] = 4000
    /\ outcome = [kind |-> "ok", val |-> 2800, tag |-> ""]

\* C2: a two-level accessor whose primary tag is absent looks up its
\* alternate tag and nothing else; it returns the table's conversion of the
\* alternate value, or fails with TagNotFound for the alternate tag.
C2_TwoLevel ==
    \A q \in TwoLevelQueries :
        (Asked(q) /\ ~Has(PrimaryTag(q))) =>
            /\ lookups = <<PrimaryTag(q), AlternateTag(q)>>
            /\ IF Has(AlternateTag(q))
               THEN /\ outcome.kind = "ok"
                    /\ Converts(q, store[AlternateTag(q)], outcome.val)
               ELSE /\ outcome.kind = "TagNotFound"
                    /\ outcome.tag = AlternateTag(q)

\* ApertureValue = 4 gives f-number 4.0.
C2_Witness ==
    /\ Asked("get_f_number")
    /\ ~Has("FNumber")
    /\ Has("ApertureValue") /\ store["ApertureValue"] = 4 * Unit
    /\ outcome.kind = "ok" /\ outcome.val = 4 * Unit

\* C3: with BrightnessValue absent, get_luminance_value returns aperture
\* value + time value - film speed value when all three resolve, film speed
\* value being log2(ISO / 3.125); when any of them fails it fails with
\* InsufficientData, not with the sub-query's TagNotFound.
C3_Luminance ==
    (Asked("get_luminance_value") /\ ~Has("BrightnessValue")) =>
        LET av  == get_aperture_value(store)
            tv  == get_time_value(store)
            iso == get_iso(store)
        IN  IF av.kind = "ok" /\ tv.kind = "ok" /\ iso.kind = "ok"
            THEN /\ outcome.kind = "ok"
                 /\ LET sv == av.val + tv.val - outcome.val
                        w  == FMul(iso.val, 320)
                    IN  IsLog2(2 * sv, FMul(w, w), Unit)
            ELSE /\ outcome.kind = "InsufficientData"
                 /\ outcome.tag = "brightness value"

\* FNumber 4, ExposureTime 1/4 s, ExposureIndex 200: 4 + 2 - 6 = 0.
C3_Witness ==
    /\ Asked("get_luminance_value")
    /\ DOMAIN store = {"FNumber", "ExposureTime", "ExposureIndex"}
    /\ store["FNumber"] = 4 * Unit
    /\ store["ExposureTime"] = 250
    /\ store["ExposureIndex"] = 200 * Unit
    /\ outcome = [kind |-> "ok", val |-> 0, tag |-> ""]

\* C4: get_average_luminance returns (N^2 * 12.5) / (T * S) of the resolved
\* f-number, exposure time and ISO (N = 4, T = 0.01, S = 100 gives 200);
\* when any of the three fails to resolve it fails with InsufficientData.
C4_AverageLuminance ==
    Asked("get_average_luminance") =>
        LET N == get_f_number(store)
            T == get_exposure_time(store)
            S == get_iso(store)
        IN  IF N.kind = "ok" /\ T.kind = "ok" /\ S.kind = "ok"
            THEN /\ outcome.kind = "ok"
                 /\ LET num == FMul(FMul(N.val, N.val), 12500)
                        den == FMul(T.val, S.val)
                    IN  /\ FMul(outcome.val, den) <= num
                        /\ num <= FMul(outcome.val + 1, den)
                 /\ (N.val = 4 * Unit /\ T.val = 10 /\ S.val = 100 * Unit)
                        => outcome.val = 200 * Unit
            ELSE /\ outcome.kind = "InsufficientData"
                 /\ outcome.tag = "average scene luminance"

C4_Witness ==
    /\ Asked("get_average_luminance")
    /\ DOMAIN store = {"FNumber", "ExposureTime", "ISOSpeedRatings"}
    /\ store["FNumber"] = 4 * Unit
    /\ store["ExposureTime"] = 10
    /\ store["ISOSpeedRatings"] = 100 * Unit
    /\ outcome = [kind |-> "ok", val |-> 200 * Unit, tag |-> ""]

\* C6: get_exposure_value is get_time_value + get_aperture_value when both
\* resolve (ShutterSpeedValue 8 and ApertureValue 4 give 12), and fails with
\* the TagNotFound of a failing sub-query otherwise.
C6_ExposureValue ==
    Asked("get_exposure_value") =>
        LET tv == get_time_value(store)
            av == get_aperture_value(store)
        IN  IF tv.kind = "ok" /\ av.kind = "ok"
            THEN /\ outcome.kind = "ok"
                 /\ outcome.val = tv.val + av.val
                 /\ (/\ Has("ShutterSpeedValue") /\ Has("ApertureValue")
                     /\ store["ShutterSpeedValue"] = 8 * Unit
                     /\ store["ApertureValue"] = 4 * Unit)
                        => outcome.val = 12 * Unit
            ELSE /\ outcome.kind = "TagNotFound"
                 /\ outcome.tag \in
                        {x.tag : x \in {y \in {tv, av} : y.kind # "ok"}}

\* Both values from their fallback tags: log2(1/0.25) + 2*log2(4) = 6.
C6_Witness ==
    /\ Asked("get_exposure_value")
    /\ ~Has("ShutterSpeedValue") /\ ~Has("ApertureValue")
    /\ Has("ExposureTime") /\ store["ExposureTime"] = 250
    /\ Has("FNumber") /\ store["FNumber"] = 4 * Unit
    /\ outcome = [kind |-> "ok", val |-> 6 * Unit, tag |-> ""]

-----------------------------------------------------------------------------
(* get_focal_length_35mm_equiv.                                            *)

Mandatory ==
    {"FocalLength", "PixelXDimension", "PixelYDimension",
     "FocalPlaneXResolution", "FocalPlaneYResolution"}

\* FocalLengthIn35mmFilm is absent or not > 0.
NoDirectValue ==
    ~Has("FocalLengthIn35mmFilm") \/ store["FocalLengthIn35mmFilm"] <= 0

ComputedPath ==
    /\ Asked("get_focal_length_35mm_equiv")
    /\ NoDirectValue
    /\ Mandatory \subseteq DOMAIN store

\* focal length * sqrt(36^2 + 24^2) / hypot(width, height), the sensor
\* being pixel dimension * mm / resolution wide and high.
FocalWith(mm) ==
    LET width  == FMul(FDiv(mm, store["FocalPlaneXResolution"]),
                       store["PixelXDimension"])
        height == FMul(FDiv(mm, store["FocalPlaneYResolution"]),
                       store["PixelYDimension"])
    IN  FDiv(FMul(store["FocalLength"], FSqrt(1872 * Unit)),
             Hypot(width, height))

SensorIsPoint ==
    store["PixelXDimension"] = 0 /\ store["PixelYDimension"] = 0

\* C5: on the computed path with both resolutions > 0, an absent
\* FocalPlaneResolutionUnit counts as code 2; code 2 measures the sensor
\* with 25.4 mm per unit and code 3 with 10.0 mm; any other present code
\* fails with InvalidValue.
C5_ResolutionUnit ==
    (/\ ComputedPath
     /\ store["FocalPlaneXResolution"] > 0
     /\ store["FocalPlaneYResolution"] > 0) =>
        LET code == IF Has("FocalPlaneResolutionUnit")
                    THEN store["FocalPlaneResolutionUnit"] ELSE 2
        IN  IF code \notin {2, 3}
            THEN /\ outcome.kind = "InvalidValue"
                 /\ outcome.tag = "FocalPlaneResolutionUnit"
            ELSE IF SensorIsPoint
            THEN outcome.kind = "InvalidValue"
            ELSE /\ outcome.kind = "ok"
                 /\ outcome.val =
                        FocalWith(IF code = 2 THEN 25400 ELSE 10000)

\* Unit code 5 with everything else valid.
C5_Witness ==
    /\ ComputedPath
    /\ store["FocalPlaneXResolution"] > 0
    /\ store["FocalPlaneYResolution"] > 0
    /\ ~SensorIsPoint
    /\ Has("FocalPlaneResolutionUnit")
    /\ store["FocalPlaneResolutionUnit"] = 5
    /\ outcome.kind = "InvalidValue"

\* C8 (as stated): with no direct value and a mandatory tag missing, the
\* query fails with TagNotFound whatever the present tags hold.
C8_MissingIsTagNotFound ==
    (/\ Asked("get_focal_length_35mm_equiv")
     /\ NoDirectValue
     /\ ~(Mandatory \subseteq DOMAIN store)) =>
        outcome.kind = "TagNotFound"

\* The first tag of the lookup order that the store lacks.
FirstMissing ==
    LET order == <<"FocalLength", "PixelXDimension", "PixelYDimension",
                   "FocalPlaneXResolution", "FocalPlaneYResolution">>
        i == CHOOSE j \in 1..5 :
                 /\ ~Has(order[j])
                 /\ \A k \in 1..(j - 1) : Has(order[k])
    IN  order[i]

\* C8 (amended): with no direct value and a mandatory tag missing, the
\* query fails with TagNotFound for the first missing tag of the lookup
\* order, except when only FocalPlaneYResolution is missing and
\* FocalPlaneXResolution is <= 0: then it fails with InvalidValue for
\* FocalPlaneXResolution.
C8_MissingMandatory ==
    (/\ Asked("get_focal_length_35mm_equiv")
     /\ NoDirectValue
     /\ ~(Mandatory \subseteq DOMAIN store)) =>
        IF /\ FirstMissing = "FocalPlaneYResolution"
           /\ store["FocalPlaneXResolution"] <= 0
        THEN /\ outcome.kind = "InvalidValue"
             /\ outcome.tag = "FocalPlaneXResolution"
        ELSE /\ outcome.kind = "TagNotFound"
             /\ outcome.tag = FirstMissing

\* Only PixelYDimension is missing, FocalPlaneXResolution is 0.
C8_Witness ==
    /\ Asked("get_focal_length_35mm_equiv")
    /\ NoDirectValue
    /\ Mandatory \ DOMAIN store = {"PixelYDimension"}
    /\ store["FocalPlaneXResolution"] = 0
    /\ outcome = [kind |-> "TagNotFound", val |-> 0, tag |-> "PixelYDimension"]

\* C9: on the computed path, a resolution <= 0 or a sensor of width and
\* height 0 makes the query fail with InvalidValue; it returns no number.
C9_InvalidValue ==
    (/\ ComputedPath
     /\ \/ store["FocalPlaneXResolution"] <= 0
        \/ store["FocalPlaneYResolution"] <= 0
        \/ SensorIsPoint) =>
        /\ outcome.kind = "InvalidValue"
        /\ outcome.tag =
             IF store["FocalPlaneXResolution"] <= 0
             THEN "FocalPlaneXResolution"
             ELSE IF store["FocalPlaneYResolution"] <= 0
             THEN "FocalPlaneYResolution"
             ELSE IF /\ Has("FocalPlaneResolutionUnit")
                     /\ store["FocalPlaneResolutionUnit"] \notin {2, 3}
             THEN "FocalPlaneResolutionUnit"
             ELSE "sensor diagonal"

\* Both pixel dimensions 0, resolutions and unit valid.
C9_Witness ==
    /\ ComputedPath
    /\ store["FocalPlaneXResolution"] > 0
    /\ store["FocalPlaneYResolution"] > 0
    /\ SensorIsPoint
    /\ Has("FocalPlaneResolutionUnit")
    /\ store["FocalPlaneResolutionUnit"] = 3
    /\ outcome = [kind |-> "InvalidValue", val |-> 0, tag |-> "sensor diagonal"]

-----------------------------------------------------------------------------
\* C10 (as stated): the f-number computed from a store holding only
\* ApertureValue = a, put as FNumber into a store of its own, gives back
\* exactly a as aperture value.
C10_RoundTripExact ==
    (Asked("get_f_number") /\ DOMAIN store = {"ApertureValue"}) =>
        get_aperture_value("FNumber" :> outcome.val).val
            = store["ApertureValue"]

\* C10 (amended): it gives back a to within the tolerance of a comparison
\* of doubles, and not always a itself.
C10_RoundTrip ==
    (Asked("get_f_number") /\ DOMAIN store = {"ApertureValue"}) =>
        LET back == get_aperture_value("FNumber" :> outcome.val)
        IN  /\ back.kind = "ok"
            /\ Abs(back.val - store["ApertureValue"]) <= Tol

\* a = 3: the f-number is 2.828, and the way back ends just below 3.
C10_Witness ==
    /\ Asked("get_f_number")
    /\ DOMAIN store = {"ApertureValue"}
    /\ store["ApertureValue"] = 3 * Unit
    /\ outcome = [kind |-> "ok", val |-> 2828, tag |-> ""]
    /\ get_aperture_value("FNumber" :> 2828).val # 3 * Unit

-----------------------------------------------------------------------------
=============================================================================
